---- MODULE Spec2Model ----
(***************************************************************************)
(* Model of the ShadowCast image pipeline.                                 *)
(*                                                                         *)
(*   src/services/imageProcessingService.ts                                *)
(*     computeDistanceMap : two-pass 4-neighbour distance transform         *)
(*     processImage       : decode, key colour, raw alpha, object/shadow    *)
(*                          masks, shave, feather, assembly, edge           *)
(*                          desaturation, output                            *)
(*   src/types.ts         : AlgorithmParams, DEFAULT_PARAMS, MAX_FILES     *)
(*   src/unnamed/part_000 : the App component: the upload queue            *)
(*                          (handleFileChange, removeFile), the batch loop *)
(*                          (processImages) and the lightbox               *)
(*                                                                         *)
(* Numbers.  The code computes in IEEE doubles and stores into typed       *)
(* arrays.  The model computes the same values exactly, as integers in a   *)
(* fixed unit that is named where it is used:                              *)
(*   - pixels are RGB triples taken from Palette, whose colours lie on the *)
(*     line (t, 255 - t, 0); a key colour is kept in quarters (the sum of  *)
(*     the four corners), and a colour distance in units of sqrt(2)/4, in  *)
(*     which every distance between such colours is an integer;            *)
(*   - shavePx, featherWidth, alphaBoost, edgeDesat, edgeDark and          *)
(*     globalDarkFactor are kept in halves (field names end in 2);         *)
(*   - typed-array stores are the conversions ToUint8 (truncate, wrap      *)
(*     modulo 256) and ToUint8Clamp (round half to even, saturate).        *)
(***************************************************************************)
EXTENDS Integers, Sequences, FiniteSets, TLC

VARIABLES
    \* ---- computeDistanceMap, run on its own ----
    mask,           \* the Uint8Array argument, indexed 0..width*height-1
    width, height,  \* its dimensions
    invert,         \* the invert argument
    dist,           \* the Float32Array being built
    dtpc,           \* "idle" | "init" | "pass1" | "pass2" | "done"
    \* ---- processImage ----
    pc,             \* position inside the promise executor / img.onload
    w, h,           \* img.width, img.height
    data,           \* decoded pixels, 0..w*h-1 -> <<r, g, b>>
    params,         \* AlgorithmParams
    key4,           \* 4 * <<keyR, keyG, keyB>>
    alphaRaw, objectMask, shadowMask, shavedObj,
    objectFeather,  \* in quarters
    alpha,
    finalRGB,       \* <<finalR, finalG, finalB>> per pixel, in 1/40000
    outD,           \* output ImageData, <<r, g, b, a>> per pixel
    promise,        \* "pending" | "resolved" | "rejected"
    rejectReason,   \* what the promise was rejected with
    \* ---- App ----
    files,          \* useState<File[]>: the queue, a sequence of File records
    results,        \* useState<ProcessedImage[]>
    status,         \* useState<ProcessingStatus>
    lightboxIndex,  \* useState<number | null>: Null or <<n>>
    appPc,          \* position of processImages: "idle" | "loop" | "await" | "hung"
    loopI,          \* the loop variable i of processImages
    newResults,     \* the local array newResults of processImages
    caught          \* the values of i for which the catch block ran in this call

dtVars == <<mask, width, height, invert, dist, dtpc>>
pipeVars == <<pc, w, h, data, params, key4, alphaRaw, objectMask, shadowMask,
              shavedObj, objectFeather, alpha, finalRGB, outD, promise,
              rejectReason>>
vars == <<mask, width, height, invert, dist, dtpc,
          pc, w, h, data, params, key4, alphaRaw, objectMask, shadowMask,
          shavedObj, objectFeather, alpha, finalRGB, outD, promise,
          rejectReason,
          files, results, status, lightboxIndex, appPc, loopI, newResults,
          caught>>
appVars == <<files, results, status, lightboxIndex, appPc, loopI, newResults,
             caught>>

(***************************************************************************)
(* Bounds of the model.                                                    *)
(***************************************************************************)
\* computeDistanceMap on its own: every mask of every shape of up to
\* MaxMaskCells pixels, and every one-pixel mask on a square of side up to
\* MaxSingleN.
MaxMaskCells == 9
MaxSingleN == 5
\* processImage: every raster of a size in SmallSizes, and every square of
\* side 3 .. MaxBlockN made of a one-pixel border around a centred block.
MaxBlockN == 5
\* Shave radii compared with one another, in halves: 0 .. MaxShave2.
MaxShave2 == 6

(***************************************************************************)
(* Small helpers.                                                          *)
(***************************************************************************)
Min2(a, b) == IF a <= b THEN a ELSE b
Max2(a, b) == IF a >= b THEN a ELSE b
Min3(a, b, c) == Min2(a, Min2(b, c))
Abs(a) == IF a < 0 THEN -a ELSE a
Cells(n) == 0 .. (n - 1)
Empty == [i \in {} |-> 0]
CountOnes(m) == Cardinality({i \in DOMAIN m : m[i] = 1})

(***************************************************************************)
(* computeDistanceMap                                                      *)
(***************************************************************************)
INF == 1000000

\* Lines 12-26: the seed loop.
InitDist(m, wd, ht, inv) ==
    [i \in Cells(wd * ht) |->
        IF inv
        THEN (IF m[i] = 0 THEN 0 ELSE INF)
        ELSE (IF m[i] = 1 THEN 0 ELSE INF)]

\* Lines 31-36: one cell of the forward sweep.
RelaxForward(d, idx, wd, ht) ==
    LET x == idx % wd
        y == idx \div wd
        up == IF y > 0 THEN d[(y - 1) * wd + x] ELSE INF
        left == IF x > 0 THEN d[y * wd + (x - 1)] ELSE INF
    IN  IF d[idx] > 0
        THEN [d EXCEPT ![idx] = Min3(d[idx], up + 1, left + 1)]
        ELSE d

\* One cell of the backward sweep with the right neighbour read at idx + 1
\* whenever the array has it: at the end of a row it is the first cell of the
\* next row.
RelaxBackwardWrap(d, idx, wd, ht) ==
    LET x == idx % wd
        y == idx \div wd
        down == IF y < ht - 1 THEN d[(y + 1) * wd + x] ELSE INF
        right == IF idx + 1 < wd * ht THEN d[idx + 1] ELSE INF
    IN  IF d[idx] > 0
        THEN [d EXCEPT ![idx] = Min3(d[idx], down + 1, right + 1)]
        ELSE d

\* Lines 43-48: one cell of the backward sweep.
RelaxBackward(d, idx, wd, ht) ==
    LET x == idx % wd
        y == idx \div wd
        down == IF y < ht - 1 THEN d[(y + 1) * wd + x] ELSE INF
        right == IF x < wd - 1 THEN d[y * wd + (x + 1)] ELSE INF
    IN  IF d[idx] > 0
        THEN [d EXCEPT ![idx] = Min3(d[idx], down + 1, right + 1)]
        ELSE d

\* TRUE, once v has been evaluated: the loops below test it on each new
\* array before they go on, so that the array is computed step by step, in
\* the order of the code, and not as one nested expression at the end.
Evaluated(v) == DOMAIN v = DOMAIN v

\* Lines 30-37: the inner loop of the forward sweep, x ascending on row y.
RECURSIVE ForwardRow(_, _, _, _, _)
ForwardRow(d, x, y, wd, ht) ==
    IF x >= wd THEN d
    ELSE LET nd == RelaxForward(d, y * wd + x, wd, ht)
         IN  IF Evaluated(nd) THEN ForwardRow(nd, x + 1, y, wd, ht) ELSE nd

\* Lines 29-38: the outer loop, y ascending.
RECURSIVE ForwardRows(_, _, _, _)
ForwardRows(d, y, wd, ht) ==
    IF y >= ht THEN d
    ELSE LET nd == ForwardRow(d, 0, y, wd, ht)
         IN  IF Evaluated(nd) THEN ForwardRows(nd, y + 1, wd, ht) ELSE nd

Pass1(d, wd, ht) == ForwardRows(d, 0, wd, ht)

\* Lines 42-49: the inner loop of the backward sweep, x descending on row y.
RECURSIVE BackwardRow(_, _, _, _, _)
BackwardRow(d, x, y, wd, ht) ==
    IF x < 0 THEN d
    ELSE LET nd == RelaxBackward(d, y * wd + x, wd, ht)
         IN  IF Evaluated(nd) THEN BackwardRow(nd, x - 1, y, wd, ht) ELSE nd

\* Lines 41-50: the outer loop, y descending.
RECURSIVE BackwardRows(_, _, _, _)
BackwardRows(d, y, wd, ht) ==
    IF y < 0 THEN d
    ELSE LET nd == BackwardRow(d, wd - 1, y, wd, ht)
         IN  IF Evaluated(nd) THEN BackwardRows(nd, y - 1, wd, ht) ELSE nd

\* The distance map without the backward sweep.
Pass2Skipped(d, wd, ht) == d

Pass2(d, wd, ht) == BackwardRows(d, ht - 1, wd, ht)

\* Lines 6-53.
computeDistanceMap(m, wd, ht, inv) ==
    Pass2(Pass1(InitDist(m, wd, ht, inv), wd, ht), wd, ht)

(***************************************************************************)
(* Typed-array stores.                                                     *)
(***************************************************************************)
\* A store of num/den (num, den >= 0) into a Uint8Array: truncate, then wrap.
ToUint8(num, den) == (num \div den) % 256

\* A store of num/den (num >= 0) into a Uint8ClampedArray (ImageData.data):
\* round to nearest, ties to even, saturate at 255.
ToUint8Clamp(num, den) ==
    LET q == num \div den
        r == num % den
        n == IF 2 * r < den THEN q
             ELSE IF 2 * r > den THEN q + 1
             ELSE IF q % 2 = 0 THEN q ELSE q + 1
    IN  Min2(255, n)

(***************************************************************************)
(* Inputs of processImage.                                                 *)
(***************************************************************************)
Green == <<0, 255, 0>>
Mid   == <<100, 155, 0>>
Red   == <<255, 0, 0>>
Palette == {Green, Mid, Red}

SmallSizes == {<<1, 1>>, <<2, 1>>, <<1, 2>>, <<2, 2>>}
DegenerateSizes == {<<0, 0>>, <<0, 1>>, <<1, 0>>}

BlockRaster(n, bg, fg) ==
    [i \in Cells(n * n) |->
        IF /\ 1 <= i % n /\ i % n <= n - 2
           /\ 1 <= i \div n /\ i \div n <= n - 2
        THEN fg ELSE bg]

RastersOfSize(s) ==
    {[w |-> s[1], h |-> s[2], data |-> d] :
        d \in [Cells(s[1] * s[2]) -> Palette]}

Rasters ==
    UNION {RastersOfSize(s) : s \in SmallSizes \cup DegenerateSizes}
    \cup {[w |-> n, h |-> n, data |-> BlockRaster(n, bg, fg)] :
            n \in 3 .. MaxBlockN, bg \in Palette, fg \in Palette}

\* Values of AlgorithmParams (src/types.ts, lines 19-31) the model draws from;
\* each set holds the field's DEFAULT_PARAMS value.
ColorTolerances == {0, 15}
FadeStrengths == {1, 50}
ObjectThresholds == {50, 210}
ShavePx2s == {0, 1, 2}              \* shavePx 0, 0.5, 1
FeatherWidth2s == {0, 2, 4}         \* featherWidth 0, 1, 2
AlphaBoost2s == {2, 5}              \* alphaBoost 1, 2.5
EdgeParams2 == {<<2, 0>>, <<0, 2>>} \* <<edgeDesat, edgeDark>>: <<1, 0>>, <<0, 1>>
GlobalDarkFactor2s == {0, 2}        \* globalDarkFactor 0, 1
ManualBgColors == {Green}

(***************************************************************************)
(* processImage, stage by stage.                                           *)
(***************************************************************************)
\* Lines 84-104: four times the key colour.
CornerSum(d, wd, ht) ==
    LET c1 == d[0]
        c2 == d[wd - 1]
        c3 == d[(ht - 1) * wd]
        c4 == d[(ht - 1) * wd + (wd - 1)]
    IN  <<c1[1] + c2[1] + c3[1] + c4[1],
          c1[2] + c2[2] + c3[2] + c4[2],
          c1[3] + c2[3] + c3[3] + c4[3]>>

\* 16 times the squared distance of line 131.
Dist2x16(p, k4) ==
    (4 * p[1] - k4[1]) * (4 * p[1] - k4[1])
    + (4 * p[2] - k4[2]) * (4 * p[2] - k4[2])
    + (4 * p[3] - k4[3]) * (4 * p[3] - k4[3])

\* Line 131: d, in units of sqrt(2)/4.  For a pixel and a key on the line
\* (t, 255 - t, 0) the three terms are u^2, u^2 and 0 with u = |4r - 4keyR|,
\* so that d = sqrt(2 u^2) / 4 = u * sqrt(2)/4 (OnPaletteLine states it).
DistUnits(p, k4) == Abs(4 * p[1] - k4[1])

\* Lines 124-134: maxDist, same unit (0 before the first pixel).
MaxDist(k) ==
    LET S == {k[i] : i \in DOMAIN k} \cup {0}
    IN  CHOOSE m \in S : \A v \in S : v <= m

\* m * m for 0 <= m < 2^24, as <<hi, lo>> with m^2 = hi * 2^24 + lo and
\* lo < 2^24 (the square itself does not fit the integers of the checker).
Sq24(m) ==
    LET a == m \div 4096
        b == m % 4096
        t == 2 * a * b
        low == (t % 4096) * 4096 + b * b
    IN  <<a * a + t \div 4096 + low \div 16777216, low % 16777216>>

\* The largest m' >= m, built from the bits bit, bit - 1, ..., 0, whose
\* square is at most nh * 2^24.
RECURSIVE SqrtBits(_, _, _)
SqrtBits(nh, m, bit) ==
    IF bit < 0 THEN m
    ELSE LET c == m + 2 ^ bit
             sq == Sq24(c)
             fits == sq[1] < nh \/ (sq[1] = nh /\ sq[2] = 0)
         IN  IF fits THEN SqrtBits(nh, c, bit - 1) ELSE SqrtBits(nh, m, bit - 1)

\* The binary exponent of d = u * sqrt(2)/4, u >= 1, as the shift s with
\* 2^23 <= d * 2^s < 2^24, that is 2^(49 - 2s) <= u^2 < 2^(51 - 2s).
Float32Shift(u) ==
    IF u = 1 THEN 25
    ELSE CHOOSE s \in 15 .. 24 :
            2 ^ (49 - 2 * s) <= u * u /\ u * u < 2 ^ (51 - 2 * s)

\* Lines 125 and 132: dists is a Float32Array, so dists[i] = d keeps the
\* float nearest to d, a 24-bit mantissa mant with dists[i] = mant / 2^shift.
\* With n = (d * 2^shift)^2 = u^2 * 2^(2 shift - 3) = nh * 2^24 and
\* m = floor(sqrt(n)), the store rounds up iff n - m^2 > m.  excess is
\* mant^2 - n: positive iff dists[i] > d.  (maxDist, line 133, keeps d.)
Float32Dist(u) ==
    LET s == Float32Shift(u)
        nh == u * u * 2 ^ (2 * s - 27)
        m == SqrtBits(nh, 0, 23)
        sq == Sq24(m)
        r == (nh - sq[1]) * 16777216 - sq[2]
    IN  IF r > m
        THEN [shift |-> s, mant |-> m + 1, excess |-> 2 * m + 1 - r]
        ELSE [shift |-> s, mant |-> m, excess |-> 0 - r]

\* dists[i] >= d + 1e-6 for the stored distance f of d.  With
\* g = mant - d * 2^shift (in units of the last place, g < 1/2 or the store
\* rounded down) and th = 2^shift / 10^6 it says g >= th, that is
\* excess + th^2 >= 2 mant th: false when th >= 1/2 (shift >= 19); else,
\* 2 mant th being yq + yr / 15625 and th^2 < 1,
\* excess > yq, or excess = yq and yr * 15625 <= 2^(2 shift - 12).
ExceedsByEpsilon(f) ==
    /\ f.excess > 0
    /\ f.shift <= 18
    /\ LET p == 2 ^ (f.shift - 5)
           t == (f.mant % 15625) * p
           yq == (f.mant \div 15625) * p + t \div 15625
           yr == t % 15625
       IN  f.excess > yq \/ (f.excess = yq /\ yr * 15625 <= 2 ^ (2 * f.shift - 12))

\* Lines 136 and 141: distNorm = dists[i] / (maxDist + 1e-6) >= 1 for the
\* pixel at distance k when the largest distance is kmax.  A pixel with
\* k < kmax has d at least sqrt(2)/4 below maxDist, more than any rounding
\* of the store; the quotient of the two doubles is >= 1 iff dists[i] is at
\* least the divisor.
DistNormAtLeastOne(k, kmax) ==
    k > 0 /\ k = kmax /\ ExceedsByEpsilon(Float32Dist(k))

\* The three zones with clearDistNorm measured against 1 (everything at the
\* largest distance is opaque).
RawAlphaOfClearAtMax(k, kmax, ct, fs) ==
    IF 255 * k <= ct * kmax THEN 0
    ELSE IF 255 * k > ct * fs * kmax \/ k = kmax THEN 255
    ELSE ToUint8(255 * (255 * k - ct * kmax) - 1, ct * (fs - 1) * kmax)

\* The three zones with the strictness of the two comparisons exchanged.
RawAlphaOfStrictOpaque(k, kmax, ct, fs) ==
    IF 255 * k < ct * kmax THEN 0
    ELSE IF 255 * k >= ct * fs * kmax THEN 255
    ELSE ToUint8(255 * (255 * k - ct * kmax) - 1, ct * (fs - 1) * kmax)

\* The three zones with the clear zone tested first, and closed.
RawAlphaOfClearFirst(k, kmax, ct, fs) ==
    IF 255 * k >= ct * fs * kmax THEN 255
    ELSE IF 255 * k <= ct * kmax THEN 0
    ELSE ToUint8(255 * (255 * k - ct * kmax) - 1, ct * (fs - 1) * kmax)

\* Lines 136-151 for one pixel at distance k when the largest is kmax.
\* distNorm = k / (kmax + e), e = 1e-6 in the unit of k (0 < e < 3e-6).
\*   distNorm <= ct/255     iff 255 k <= ct (kmax + e) iff 255 k <= ct kmax,
\*   distNorm >  ct fs/255  iff 255 k >  ct fs kmax,
\* both sides being integers less than 1/e apart.  In the fade branch
\*   255 * fade = 255 (255 k - ct (kmax + e)) / (ct (fs - 1) (kmax + e))
\* lies below N / D, N = 255 (255 k - ct kmax), D = ct (fs - 1) kmax, by less
\* than 1/D: its floor is floor((N - 1) / D).
RawAlphaOf(k, kmax, ct, fs) ==
    IF 255 * k <= ct * kmax THEN 0
    ELSE IF 255 * k > ct * fs * kmax THEN 255
    ELSE ToUint8(255 * (255 * k - ct * kmax) - 1, ct * (fs - 1) * kmax)

\* Lines 124-152.
RawAlphaField(d, k4, ct, fs) ==
    LET k == [i \in DOMAIN d |-> DistUnits(d[i], k4)]
        kmax == MaxDist(k)
    IN  [i \in DOMAIN d |-> RawAlphaOf(k[i], kmax, ct, fs)]

\* Line 159.
ObjectMaskOf(a, thr) == [i \in DOMAIN a |-> IF a[i] >= thr THEN 1 ELSE 0]

\* Line 160.
ShadowMaskOf(a, thr) ==
    [i \in DOMAIN a |-> IF a[i] > 0 /\ a[i] < thr THEN 1 ELSE 0]

\* Stage 4 without the copy of line 173: shavedObj stays as allocated.
ShaveNoCopy(om, wd, ht, s2) ==
    IF s2 > 0
    THEN LET distInside == computeDistanceMap(om, wd, ht, TRUE)
         IN  [i \in DOMAIN om |-> IF 2 * distInside[i] > s2 THEN 1 ELSE 0]
    ELSE [i \in DOMAIN om |-> 0]

\* Stage 4 measuring the distance with invert = false.
ShaveInvertFalse(om, wd, ht, s2) ==
    IF s2 > 0
    THEN LET distInside == computeDistanceMap(om, wd, ht, FALSE)
         IN  [i \in DOMAIN om |-> IF 2 * distInside[i] > s2 THEN 1 ELSE 0]
    ELSE om

\* Lines 164-174: shavePx = s2 / 2.
Shave(om, wd, ht, s2) ==
    IF s2 > 0
    THEN LET distInside == computeDistanceMap(om, wd, ht, TRUE)
         IN  [i \in DOMAIN om |-> IF 2 * distInside[i] > s2 THEN 1 ELSE 0]
    ELSE om

\* A ramp measured from the boundary pixel itself (distance - 1).
FeatherFromRim(sh, wd, ht, f2) ==
    IF f2 > 0
    THEN LET distFeather == computeDistanceMap(sh, wd, ht, TRUE)
         IN  [i \in DOMAIN sh |->
                Min2(4, (8 * Max2(0, distFeather[i] - 1)) \div f2)]
    ELSE [i \in DOMAIN sh |-> IF sh[i] = 1 THEN 4 ELSE 0]

\* Lines 178-193, in quarters: featherWidth = f2 / 2, so that
\* distFeather / featherWidth = 8 distFeather / f2 quarters (f2 divides 8).
Feather(sh, wd, ht, f2) ==
    IF f2 > 0
    THEN LET distFeather == computeDistanceMap(sh, wd, ht, TRUE)
         IN  [i \in DOMAIN sh |-> Min2(4, (8 * distFeather[i]) \div f2)]
    ELSE [i \in DOMAIN sh |-> IF sh[i] = 1 THEN 4 ELSE 0]

\* finalA before the boost with the feather applied to the shadow as well.
BaseAlpha4FeatherAll(a, sh, sm, of, i) ==
    IF sh[i] = 1 \/ sm[i] = 1 THEN a[i] * of[i]
    ELSE 0

\* finalA before the boost with the raw alpha kept by every pixel outside the
\* shaved object, in shadowMask or not.
BaseAlpha4KeepRaw(a, sh, sm, of, i) ==
    IF sh[i] = 1 THEN a[i] * of[i]
    ELSE IF a[i] > 0 THEN 4 * a[i]
    ELSE 0

\* Lines 200-214: finalA before the boost, in quarters.
BaseAlpha4(a, sh, sm, of, i) ==
    IF sh[i] = 1 THEN a[i] * of[i]
    ELSE IF sm[i] = 1 THEN 4 * a[i]
    ELSE 0

\* Line 197: params.alphaBoost || 1.0, in halves.
Boost2(b2) == IF b2 = 0 THEN 2 ELSE b2

\* The boost without Math.min.
BoostedAlpha8Unsaturated(base4, b2) ==
    IF base4 > 0 THEN base4 * Boost2(b2) ELSE 0

\* Lines 218-220: finalA after the boost, in eighths.
BoostedAlpha8(base4, b2) ==
    IF base4 > 0 THEN Min2(255 * 8, base4 * Boost2(b2)) ELSE 0

\* Lines 196-223: alpha is a Uint8Array.
FinalAssembly(a, sh, sm, of, b2) ==
    [i \in DOMAIN a |->
        ToUint8(BoostedAlpha8(BaseAlpha4(a, sh, sm, of, i), b2), 8)]

\* Lines 237, 257: 10000 * (0.2989 r + 0.5870 g + 0.1140 b).
Gray10k(p) == 2989 * p[1] + 5870 * p[2] + 1140 * p[3]

\* Lines 236-246 for one channel value c of pixel p, in 1/40000.
EdgeChannel(c, p, a, desat2, dark2) ==
    LET v == IF a > 0 /\ a < 255
             THEN (c * 10000 * (2 - desat2) + Gray10k(p) * desat2) * dark2
             ELSE c * 40000
    IN  Min2(255 * 40000, Max2(0, v))

\* Lines 226-247.
EdgeDesaturation(d, al, desat2, dark2) ==
    [i \in DOMAIN d |->
        <<EdgeChannel(d[i][1], d[i], al[i], desat2, dark2),
          EdgeChannel(d[i][2], d[i], al[i], desat2, dark2),
          EdgeChannel(d[i][3], d[i], al[i], desat2, dark2)>>]

\* Line 258: darkGray, in 1/20000.
DarkGray20k(p, gdf2) == Min2(255 * 20000, Max2(0, Gray10k(p) * gdf2))

\* An output stage that emits the edge-desaturated channels.
OutputDataFromFinal(d, fin, al, gdf2) ==
    [i \in DOMAIN d |->
        <<ToUint8Clamp(fin[i][1], 40000), ToUint8Clamp(fin[i][2], 40000),
          ToUint8Clamp(fin[i][3], 40000), al[i]>>]

\* Lines 250-264: outD is ImageData.data, a Uint8ClampedArray.  fin (finalR,
\* finalG, finalB) is in scope and not read.
OutputData(d, fin, al, gdf2) ==
    [i \in DOMAIN d |->
        LET g == ToUint8Clamp(DarkGray20k(d[i], gdf2), 20000)
        IN  <<g, g, g, al[i]>>]

(***************************************************************************)
(* processImage as a state machine.  Each field of the immutable params    *)
(* record is read by exactly one stage; the stage that reads a field draws *)
(* its value and records it in params, which holds the fields read so far. *)
(***************************************************************************)
NoReason == "none"
NoContext == "Could not get canvas context"
DecodeError == "image error event"

PipeIdle ==
    /\ w = 0 /\ h = 0 /\ data = Empty /\ params = Empty
    /\ key4 = <<0, 0, 0>>
    /\ alphaRaw = Empty /\ objectMask = Empty /\ shadowMask = Empty
    /\ shavedObj = Empty /\ objectFeather = Empty /\ alpha = Empty
    /\ finalRGB = Empty /\ outD = Empty
    /\ promise = "pending" /\ rejectReason = NoReason

DTIdle ==
    /\ mask = Empty /\ width = 0 /\ height = 0 /\ invert = FALSE
    /\ dist = Empty /\ dtpc = "idle"

\* part_000 line 18: the null of useState<number | null>.  A number n is
\* kept as <<n>>, so that no number is taken for null.
Null == << >>

\* part_000 lines 11-17: the initial ProcessingStatus.  progress is the
\* fraction <<a, b>>, standing for a / b * 100.
InitialStatus ==
    [isProcessing |-> FALSE, currentStep |-> "Waiting for input",
     progress |-> <<0, 1>>, totalImages |-> 0, completedImages |-> 0]

\* part_000 lines 9-18: the App as mounted.
AppIdle ==
    /\ files = << >> /\ results = << >>
    /\ status = InitialStatus
    /\ lightboxIndex = Null
    /\ appPc = "idle" /\ loopI = 0 /\ newResults = << >> /\ caught = << >>

\* Lines 60-62, 279: the executor has created the image and set img.src.
Init ==
    /\ DTIdle
    /\ AppIdle
    /\ pc = "loading"
    /\ \E r \in Rasters : w = r.w /\ h = r.h /\ data = r.data
    /\ params = Empty
    /\ key4 = <<0, 0, 0>>
    /\ alphaRaw = Empty /\ objectMask = Empty /\ shadowMask = Empty
    /\ shavedObj = Empty /\ objectFeather = Empty /\ alpha = Empty
    /\ finalRGB = Empty /\ outD = Empty
    /\ promise = "pending" /\ rejectReason = NoReason

\* Line 278: img.onerror.
OnError ==
    /\ pc = "loading"
    /\ pc' = "settled"
    /\ promise' = "rejected"
    /\ rejectReason' = DecodeError
    /\ UNCHANGED <<w, h, data, params, key4, alphaRaw, objectMask, shadowMask,
                   shavedObj, objectFeather, alpha, finalRGB, outD>>
    /\ UNCHANGED dtVars
    /\ UNCHANGED appVars

\* Lines 64-75: img.onload when getContext('2d') returns null.
OnLoadNoContext ==
    /\ pc = "loading"
    /\ pc' = "settled"
    /\ promise' = "rejected"
    /\ rejectReason' = NoContext
    /\ UNCHANGED <<w, h, data, params, key4, alphaRaw, objectMask, shadowMask,
                   shavedObj, objectFeather, alpha, finalRGB, outD>>
    /\ UNCHANGED dtVars
    /\ UNCHANGED appVars

\* Lines 64-79: img.onload with a context.  No statement of the handler tests
\* w or h.  ctx.getImageData(0, 0, w, h) raises IndexSizeError when w or h is
\* 0; nothing in the handler catches it, so the handler ends there and the
\* promise is left as it was.
OnLoad ==
    /\ pc = "loading"
    /\ pc' = IF w * h = 0 THEN "threw" ELSE "detectBg"
    /\ UNCHANGED <<w, h, data, params, key4, alphaRaw, objectMask, shadowMask,
                   shavedObj, objectFeather, alpha, finalRGB, outD, promise,
                   rejectReason>>
    /\ UNCHANGED dtVars
    /\ UNCHANGED appVars

\* Lines 82-104.
DetectBackground ==
    /\ pc = "detectBg"
    /\ \E auto \in BOOLEAN, m \in ManualBgColors :
        /\ params' = params @@ ("autoDetectBg" :> auto)
                            @@ ("manualBgColor" :> m)
        /\ key4' = IF auto THEN CornerSum(data, w, h)
                   ELSE <<4 * m[1], 4 * m[2], 4 * m[3]>>
    /\ pc' = "rawAlpha"
    /\ UNCHANGED <<w, h, data, alphaRaw, objectMask, shadowMask, shavedObj,
                   objectFeather, alpha, finalRGB, outD, promise, rejectReason>>
    /\ UNCHANGED dtVars
    /\ UNCHANGED appVars

\* Lines 107-152 (origR, origG, origB are copies of data).
RawAlpha ==
    /\ pc = "rawAlpha"
    /\ \E ct \in ColorTolerances, fs \in FadeStrengths :
        /\ params' = params @@ ("colorTolerance" :> ct)
                            @@ ("fadeStrength" :> fs)
        /\ alphaRaw' = RawAlphaField(data, key4, ct, fs)
    /\ pc' = "masks"
    /\ UNCHANGED <<w, h, data, key4, objectMask, shadowMask, shavedObj,
                   objectFeather, alpha, finalRGB, outD, promise, rejectReason>>
    /\ UNCHANGED dtVars
    /\ UNCHANGED appVars

\* Lines 155-161.
IdentifyMasks ==
    /\ pc = "masks"
    /\ \E thr \in ObjectThresholds :
        /\ params' = params @@ ("objectThreshold" :> thr)
        /\ objectMask' = ObjectMaskOf(alphaRaw, thr)
        /\ shadowMask' = ShadowMaskOf(alphaRaw, thr)
    /\ pc' = "shave"
    /\ UNCHANGED <<w, h, data, key4, alphaRaw, shavedObj, objectFeather, alpha,
                   finalRGB, outD, promise, rejectReason>>
    /\ UNCHANGED dtVars
    /\ UNCHANGED appVars

\* Lines 164-174.
ShaveStage ==
    /\ pc = "shave"
    /\ \E s2 \in ShavePx2s :
        /\ params' = params @@ ("shavePx2" :> s2)
        /\ shavedObj' = Shave(objectMask, w, h, s2)
    /\ pc' = "feather"
    /\ UNCHANGED <<w, h, data, key4, alphaRaw, objectMask, shadowMask,
                   objectFeather, alpha, finalRGB, outD, promise, rejectReason>>
    /\ UNCHANGED dtVars
    /\ UNCHANGED appVars

\* Lines 178-193.
FeatherStage ==
    /\ pc = "feather"
    /\ \E f2 \in FeatherWidth2s :
        /\ params' = params @@ ("featherWidth2" :> f2)
        /\ objectFeather' = Feather(shavedObj, w, h, f2)
    /\ pc' = "assembly"
    /\ UNCHANGED <<w, h, data, key4, alphaRaw, objectMask, shadowMask,
                   shavedObj, alpha, finalRGB, outD, promise, rejectReason>>
    /\ UNCHANGED dtVars
    /\ UNCHANGED appVars

\* Lines 196-223.
AssemblyStage ==
    /\ pc = "assembly"
    /\ \E b2 \in AlphaBoost2s :
        /\ params' = params @@ ("alphaBoost2" :> b2)
        /\ alpha' = FinalAssembly(alphaRaw, shavedObj, shadowMask,
                                  objectFeather, b2)
    /\ pc' = "edge"
    /\ UNCHANGED <<w, h, data, key4, alphaRaw, objectMask, shadowMask,
                   shavedObj, objectFeather, finalRGB, outD, promise,
                   rejectReason>>
    /\ UNCHANGED dtVars
    /\ UNCHANGED appVars

\* Lines 226-247.
EdgeStage ==
    /\ pc = "edge"
    /\ \E e \in EdgeParams2 :
        /\ params' = params @@ ("edgeDesat2" :> e[1]) @@ ("edgeDark2" :> e[2])
        /\ finalRGB' = EdgeDesaturation(data, alpha, e[1], e[2])
    /\ pc' = "output"
    /\ UNCHANGED <<w, h, data, key4, alphaRaw, objectMask, shadowMask,
                   shavedObj, objectFeather, alpha, outD, promise, rejectReason>>
    /\ UNCHANGED dtVars
    /\ UNCHANGED appVars

\* Lines 250-275: build the output raster and resolve.
OutputStage ==
    /\ pc = "output"
    /\ \E g2 \in GlobalDarkFactor2s :
        /\ params' = params @@ ("globalDarkFactor2" :> g2)
        /\ outD' = OutputData(data, finalRGB, alpha, g2)
    /\ pc' = "settled"
    /\ promise' = "resolved"
    /\ UNCHANGED <<w, h, data, key4, alphaRaw, objectMask, shadowMask,
                   shavedObj, objectFeather, alpha, finalRGB, rejectReason>>
    /\ UNCHANGED dtVars
    /\ UNCHANGED appVars

Next ==
    \/ OnError
    \/ OnLoadNoContext
    \/ OnLoad
    \/ DetectBackground
    \/ RawAlpha
    \/ IdentifyMasks
    \/ ShaveStage
    \/ FeatherStage
    \/ AssemblyStage
    \/ EdgeStage
    \/ OutputStage

Spec == Init /\ [][Next]_vars

(***************************************************************************)
(* computeDistanceMap run on its own, one loop per step.                   *)
(***************************************************************************)
MasksOfSize(wd, ht) ==
    {[w |-> wd, h |-> ht, mask |-> m] : m \in [Cells(wd * ht) -> {0, 1}]}

SinglePixelMasks(n) ==
    {[w |-> n, h |-> n, mask |-> [i \in Cells(n * n) |-> IF i = p THEN 1 ELSE 0]] :
        p \in Cells(n * n)}

MaskInputs ==
    UNION {MasksOfSize(s[1], s[2]) :
            s \in {t \in (1 .. MaxMaskCells) \X (1 .. MaxMaskCells) :
                        t[1] * t[2] <= MaxMaskCells}}
    \cup UNION {SinglePixelMasks(n) : n \in 1 .. MaxSingleN}

InitDT ==
    /\ pc = "idle"
    /\ PipeIdle
    /\ AppIdle
    /\ \E m \in MaskInputs, inv \in BOOLEAN :
        /\ mask = m.mask /\ width = m.w /\ height = m.h /\ invert = inv
    /\ dist = Empty
    /\ dtpc = "init"

\* Lines 7-26.
DTInitialize ==
    /\ dtpc = "init"
    /\ dist' = InitDist(mask, width, height, invert)
    /\ dtpc' = "pass1"
    /\ UNCHANGED <<mask, width, height, invert>>
    /\ UNCHANGED pipeVars
    /\ UNCHANGED appVars

\* Lines 28-38.
DTPass1 ==
    /\ dtpc = "pass1"
    /\ dist' = Pass1(dist, width, height)
    /\ dtpc' = "pass2"
    /\ UNCHANGED <<mask, width, height, invert>>
    /\ UNCHANGED pipeVars
    /\ UNCHANGED appVars

\* Lines 40-52.
DTPass2 ==
    /\ dtpc = "pass2"
    /\ dist' = Pass2(dist, width, height)
    /\ dtpc' = "done"
    /\ UNCHANGED <<mask, width, height, invert>>
    /\ UNCHANGED pipeVars
    /\ UNCHANGED appVars

NextDT == DTInitialize \/ DTPass1 \/ DTPass2

SpecDT == InitDT /\ [][NextDT]_vars

(***************************************************************************)
(* The App component (src/unnamed/part_000): the upload queue, the batch   *)
(* loop of processImages and the lightbox.  A File is kept by the one      *)
(* field the component reads before processing, its type; processImage is  *)
(* called on it as a whole, and its promise settles in one of the ways the *)
(* pipeline above ends: resolved, rejected, or left pending.               *)
(***************************************************************************)
\* src/types.ts line 34.
MAX_FILES == 10

\* The largest number of accepted files in one selection (one more than
\* the cap), and of refused files in it.
MaxSelect == 11
MaxInvalid == 2

\* Line 24: the MIME types the filter lets through.
AcceptedTypes == {"image/jpeg", "image/png", "image/jpg"}

File(t) == [type |-> t]

\* Line 22: event.target.files, the refused files first.
Selections ==
    {[j \in 1 .. (ni + nv) |->
        IF j <= ni THEN File("image/gif") ELSE File("image/png")] :
            nv \in 0 .. MaxSelect, ni \in 0 .. MaxInvalid}

\* Lines 23-25.
ValidFiles(selectedFiles) ==
    SelectSeq(selectedFiles, LAMBDA f : f.type \in AcceptedTypes)

\* The cap test with the queue left out of the sum.
ExceedsCapSelectionOnly(validCount, queued) == validCount > MAX_FILES

\* Line 27.
ExceedsCap(validCount, queued) == validCount + queued > MAX_FILES

\* Lines 27-32: the queue after a change event of the file input.
QueueAfterChange(queue, selectedFiles) ==
    LET validFiles == ValidFiles(selectedFiles)
    IN  IF ExceedsCap(Len(validFiles), Len(queue))
        THEN queue
        ELSE queue \o validFiles

\* Line 36: prev.filter((_, i) => i !== index), index counted from 0.
WithoutIndex(queue, index) ==
    [j \in 1 .. (Len(queue) - 1) |->
        IF j <= index THEN queue[j] ELSE queue[j + 1]]

\* Line 217: the upload area, with the file input, the remove buttons and
\* the Process button, is rendered.
UploadVisible == ~status.isProcessing /\ results = << >>

\* Lines 21-33, bound at line 229.
HandleFileChange ==
    /\ UploadVisible
    /\ \E selectedFiles \in Selections :
        files' = QueueAfterChange(files, selectedFiles)
    /\ UNCHANGED <<results, status, lightboxIndex, appPc, loopI, newResults,
                   caught>>
    /\ UNCHANGED <<dtVars, pipeVars>>

\* Lines 35-37, bound at line 245 for each queued file.
RemoveFile ==
    /\ UploadVisible
    /\ \E index \in 0 .. (Len(files) - 1) :
        files' = WithoutIndex(files, index)
    /\ UNCHANGED <<results, status, lightboxIndex, appPc, loopI, newResults,
                   caught>>
    /\ UNCHANGED <<dtVars, pipeVars>>

\* Lines 39-52, bound at line 259 (rendered when files.length > 0).
ProcessImagesStart ==
    /\ UploadVisible
    /\ appPc = "idle"
    /\ Len(files) # 0
    /\ status' = [isProcessing |-> TRUE, currentStep |-> "Initializing...",
                  progress |-> <<0, 1>>, totalImages |-> Len(files),
                  completedImages |-> 0]
    /\ newResults' = << >>
    /\ caught' = << >>
    /\ loopI' = 0
    /\ appPc' = "loop"
    /\ UNCHANGED <<files, results, lightboxIndex>>
    /\ UNCHANGED <<dtVars, pipeVars>>

\* Lines 52-62: the loop test, the status update and the 100 ms delay.
LoopHead ==
    /\ appPc = "loop"
    /\ loopI < Len(files)
    /\ status' = [status EXCEPT !.currentStep = "Processing",
                                !.progress = <<loopI, Len(files)>>]
    /\ appPc' = "await"
    /\ UNCHANGED <<files, results, lightboxIndex, loopI, newResults, caught>>
    /\ UNCHANGED <<dtVars, pipeVars>>

\* Lines 65-69: the entry pushed for files[i]; the File object is named by
\* its place in the queue.
ResultOf(i) == [fileIndex |-> i]

\* The catch block ending the loop.
AfterCatchLeaveLoop(i, n) == n

\* Lines 76-79, 52: the catch block logs, and the loop goes on with i++.
AfterCatch(i, n) == i + 1

\* Lines 64-75, 52: processImage resolved.
ProcessImageResolves ==
    /\ appPc = "await"
    /\ newResults' = Append(newResults, ResultOf(loopI))
    /\ status' = [status EXCEPT
                    !.completedImages = status.completedImages + 1,
                    !.progress = <<loopI + 1, Len(files)>>]
    /\ loopI' = loopI + 1
    /\ appPc' = "loop"
    /\ UNCHANGED <<files, results, lightboxIndex, caught>>
    /\ UNCHANGED <<dtVars, pipeVars>>

\* Lines 64, 76-79, 52: processImage rejected (img.onerror, or no canvas
\* context).
ProcessImageRejects ==
    /\ appPc = "await"
    /\ caught' = Append(caught, loopI)
    /\ loopI' = AfterCatch(loopI, Len(files))
    /\ appPc' = "loop"
    /\ UNCHANGED <<files, results, status, lightboxIndex, newResults>>
    /\ UNCHANGED <<dtVars, pipeVars>>

\* Line 64: processImage's promise is never settled (the image decoded to
\* an empty raster and img.onload threw), so the await never returns.
ProcessImageNeverSettles ==
    /\ appPc = "await"
    /\ appPc' = "hung"
    /\ UNCHANGED <<files, results, status, lightboxIndex, loopI, newResults,
                   caught>>
    /\ UNCHANGED <<dtVars, pipeVars>>

\* Lines 52, 81-83: the loop is left and the batch ends.
ProcessImagesFinish ==
    /\ appPc = "loop"
    /\ ~(loopI < Len(files))
    /\ status' = [status EXCEPT !.isProcessing = FALSE,
                                !.currentStep = "Done!",
                                !.progress = <<1, 1>>]
    /\ results' = newResults
    /\ files' = << >>
    /\ appPc' = "idle"
    /\ UNCHANGED <<lightboxIndex, loopI, newResults, caught>>
    /\ UNCHANGED <<dtVars, pipeVars>>

\* JavaScript's % on integers, n > 0: the sign is the dividend's.
JsRem(a, n) == IF a >= 0 THEN a % n ELSE 0 - ((0 - a) % n)

\* nextImage without the remainder.
NextIndexNoWrap(prev, len) ==
    IF prev = Null THEN Null ELSE <<prev[1] + 1>>

\* Lines 146-150.
NextIndex(prev, len) ==
    IF prev = Null THEN Null
    ELSE LET totalSlides == len * 2
         IN  <<JsRem(prev[1] + 1, totalSlides)>>

\* Lines 155-159.
PrevIndex(prev, len) ==
    IF prev = Null THEN Null
    ELSE LET totalSlides == len * 2
         IN  <<JsRem(prev[1] - 1 + totalSlides, totalSlides)>>

\* Lines 327, 337, 355: a click on result idx, on its Original half
\* (half = 0) or its Result half (half = 1); the gallery is rendered when
\* results.length > 0 (line 293).
OpenLightbox ==
    /\ results # << >>
    /\ \E idx \in 0 .. (Len(results) - 1), half \in {0, 1} :
        lightboxIndex' = <<idx * 2 + half>>
    /\ UNCHANGED <<files, results, status, appPc, loopI, newResults, caught>>
    /\ UNCHANGED <<dtVars, pipeVars>>

\* Lines 144-151, bound at line 432 inside the modal and at line 166 behind
\* the guard of line 164.
NextImage ==
    /\ lightboxIndex # Null
    /\ lightboxIndex' = NextIndex(lightboxIndex, Len(results))
    /\ UNCHANGED <<files, results, status, appPc, loopI, newResults, caught>>
    /\ UNCHANGED <<dtVars, pipeVars>>

\* Lines 153-160, bound at line 426 inside the modal and at line 167.
PrevImage ==
    /\ lightboxIndex # Null
    /\ lightboxIndex' = PrevIndex(lightboxIndex, Len(results))
    /\ UNCHANGED <<files, results, status, appPc, loopI, newResults, caught>>
    /\ UNCHANGED <<dtVars, pipeVars>>

\* Line 142, bound at lines 380 and 394 inside the modal and at line 165.
CloseLightbox ==
    /\ lightboxIndex # Null
    /\ lightboxIndex' = Null
    /\ UNCHANGED <<files, results, status, appPc, loopI, newResults, caught>>
    /\ UNCHANGED <<dtVars, pipeVars>>

\* Line 305: Start Over reloads the page, which mounts the App anew.
Reload ==
    /\ results # << >>
    /\ files' = << >> /\ results' = << >>
    /\ status' = InitialStatus
    /\ lightboxIndex' = Null
    /\ appPc' = "idle" /\ loopI' = 0 /\ newResults' = << >> /\ caught' = << >>
    /\ UNCHANGED <<dtVars, pipeVars>>

\* Lines 174-186: getCurrentSlide.  results[imageIndex] of an index outside
\* the array is undefined, and reading its url throws.
GetCurrentSlide(index, res) ==
    IF index = Null THEN Null
    ELSE LET imageIndex == index[1] \div 2
             isOriginal == JsRem(index[1], 2) = 0
         IN  IF imageIndex + 1 \in DOMAIN res
             THEN [data |-> res[imageIndex + 1],
                   type |-> IF isOriginal THEN "Original" ELSE "Result",
                   indexStr |-> <<imageIndex + 1, Len(res)>>]
             ELSE "TypeError"

InitApp ==
    /\ pc = "idle"
    /\ PipeIdle
    /\ DTIdle
    /\ AppIdle

NextApp ==
    \/ HandleFileChange
    \/ RemoveFile
    \/ ProcessImagesStart
    \/ LoopHead
    \/ ProcessImageResolves
    \/ ProcessImageRejects
    \/ ProcessImageNeverSettles
    \/ ProcessImagesFinish
    \/ OpenLightbox
    \/ NextImage
    \/ PrevImage
    \/ CloseLightbox
    \/ Reload

SpecApp == InitApp /\ [][NextApp]_vars


(***************************************************************************)
(* Properties.                                                             *)
(***************************************************************************)
\* The stage that reads field f has run.
HasRead(f) == f \in DOMAIN params

\* Every distance the model keeps in units of sqrt(2)/4 is the code's d:
\* 16 d^2 = 2 u^2.
OnPaletteLine ==
    HasRead("autoDetectBg") =>
        \A i \in DOMAIN data :
            Dist2x16(data[i], key4) = 2 * DistUnits(data[i], key4) * DistUnits(data[i], key4)

\* The raster and the parameters of the end-to-end scenario.
C1_Scenario ==
    /\ w = 4 /\ h = 4 /\ data = BlockRaster(4, Green, Red)
    /\ HasRead("autoDetectBg") => params["autoDetectBg"] = TRUE
    /\ HasRead("colorTolerance") =>
        params["colorTolerance"] = 15 /\ params["fadeStrength"] = 50
    /\ HasRead("objectThreshold") => params["objectThreshold"] = 210

\* C1, as claimed: in the scenario every red pixel gets raw alpha 255 and is
\* in objectMask, and every green pixel gets final alpha 0.
C1_RedIsObject ==
    C1_Scenario =>
        /\ HasRead("colorTolerance") =>
            \A i \in DOMAIN data : data[i] = Red => alphaRaw[i] = 255
        /\ HasRead("objectThreshold") =>
            \A i \in DOMAIN data : data[i] = Red => objectMask[i] = 1
        /\ HasRead("alphaBoost2") =>
            \A i \in DOMAIN data : data[i] = Green => alpha[i] = 0

\* C1, amended: in the scenario every red pixel gets raw alpha 83 (it lies in
\* the fade zone, clearDistNorm being 750/255 > 1) and is classified into
\* shadowMask and not into objectMask; every green pixel gets raw alpha 0 and
\* final alpha 0.
C1_RedIsShadow ==
    C1_Scenario =>
        /\ HasRead("colorTolerance") =>
            \A i \in DOMAIN data :
                /\ data[i] = Red => alphaRaw[i] = 83
                /\ data[i] = Green => alphaRaw[i] = 0
        /\ HasRead("objectThreshold") =>
            \A i \in DOMAIN data :
                data[i] = Red => objectMask[i] = 0 /\ shadowMask[i] = 1
        /\ HasRead("alphaBoost2") =>
            \A i \in DOMAIN data : data[i] = Green => alpha[i] = 0

C1_Witness ==
    /\ C1_Scenario
    /\ promise = "resolved"
    /\ alphaRaw[5] = 83 /\ shadowMask[5] = 1 /\ alpha[0] = 0
    /\ outD[0][4] = 0

\* Every pixel equals the key colour.
UniformAtKey ==
    /\ HasRead("autoDetectBg")
    /\ \A i \in DOMAIN data :
        <<4 * data[i][1], 4 * data[i][2], 4 * data[i][3]>> = key4

\* The pixel at distance k, the largest being kmax, takes the linear-fade
\* branch (the only place that divides by clearDistNorm - opaqueDistNorm).
TakesFadeBranch(k, kmax, ct, fs) ==
    ~(255 * k <= ct * kmax) /\ ~(255 * k > ct * fs * kmax)

\* C2: when every pixel equals the key colour (maxDist = 0), whatever the
\* parameters, no pixel reaches the fade division, every raw alpha is 0,
\* objectMask and shadowMask are empty and every pixel's final and output
\* alpha is 0.
C2_UniformIsBackground ==
    UniformAtKey =>
        /\ HasRead("colorTolerance") =>
            /\ \A i \in DOMAIN data :
                ~TakesFadeBranch(DistUnits(data[i], key4), 0,
                                 params["colorTolerance"], params["fadeStrength"])
            /\ \A i \in DOMAIN data : alphaRaw[i] = 0
        /\ HasRead("objectThreshold") =>
            CountOnes(objectMask) = 0 /\ CountOnes(shadowMask) = 0
        /\ HasRead("alphaBoost2") => \A i \in DOMAIN data : alpha[i] = 0
        /\ promise = "resolved" => \A i \in DOMAIN data : outD[i][4] = 0

C2_Witness ==
    /\ UniformAtKey
    /\ w = 2 /\ h = 2 /\ data[0] = Red
    /\ promise = "resolved"
    /\ params["colorTolerance"] = 0
    /\ params["alphaBoost2"] = 5
    /\ \A i \in DOMAIN data : outD[i][4] = 0

\* The mask holds exactly one foreground pixel, at index p.
OnlyForeground(p) ==
    /\ p \in DOMAIN mask
    /\ \A i \in DOMAIN mask : mask[i] = (IF i = p THEN 1 ELSE 0)

\* City-block distance between cells i and j of a grid of width wd.
CityBlock(i, j, wd) ==
    Abs((i % wd) - (j % wd)) + Abs((i \div wd) - (j \div wd))

NearestCityBlock(m, i, wd, v) ==
    LET D == {CityBlock(i, j, wd) : j \in {c \in DOMAIN m : m[c] = v}}
    IN  IF D = {} THEN INF ELSE CHOOSE d \in D : \A e \in D : d <= e

\* C4, as claimed: with invert = false the mask-0 pixels are seeded with 0 and
\* keep it, and the mask-1 pixels are seeded with INF and end with their
\* distance to the nearest mask-0 pixel.
C4_ZeroClassIsBackground ==
    ~invert =>
        /\ dtpc \in {"pass1", "pass2", "done"} =>
            \A i \in DOMAIN mask : mask[i] = 0 => dist[i] = 0
        /\ dtpc = "pass1" =>
            \A i \in DOMAIN mask : mask[i] = 1 => dist[i] = INF
        /\ dtpc = "done" =>
            \A i \in DOMAIN mask :
                mask[i] = 1 => dist[i] = NearestCityBlock(mask, i, width, 0)

\* C5: with shavePx = 0 the shaved mask equals objectMask at every pixel, and
\* objectMask is still the classification of line 159.
C5_ShaveZeroIsIdentity ==
    (HasRead("shavePx2") /\ params["shavePx2"] = 0) =>
        /\ shavedObj = objectMask
        /\ objectMask = ObjectMaskOf(alphaRaw, params["objectThreshold"])

C5_Witness ==
    /\ HasRead("shavePx2") /\ params["shavePx2"] = 0
    /\ w = 5
    /\ CountOnes(objectMask) = 9
    /\ shavedObj = objectMask
    /\ pc = "feather"

\* Mask a is a subset of mask b.
SubsetMask(a, b) == \A i \in DOMAIN a : a[i] = 1 => b[i] = 1

\* shaved[s] being the shaved mask for radius s (in halves): the pixel counts
\* never grow with the radius, every shaved mask is a subset of objectMask,
\* and the mask the run computed takes its place in the order.
C6_Holds(shaved) ==
    LET cnt == [s \in DOMAIN shaved |-> CountOnes(shaved[s])]
        own == CountOnes(shavedObj)
    IN  /\ \A s1, s2 \in DOMAIN shaved : s1 <= s2 => cnt[s2] <= cnt[s1]
        /\ \A s \in DOMAIN shaved : SubsetMask(shaved[s], objectMask)
        /\ SubsetMask(shavedObj, objectMask)
        /\ \A s \in DOMAIN shaved :
            /\ s >= params["shavePx2"] => cnt[s] <= own
            /\ s <= params["shavePx2"] => cnt[s] >= own

\* C6: for shave radii 0 <= s1 <= s2 (in halves, 0 included, which takes the
\* copy branch), the shaved mask for s2 has no more pixels than the one for
\* s1, and every shaved mask is a subset of objectMask; so for the mask the
\* run computed.  Stated where the shave has just run: no later stage writes
\* objectMask, shavedObj or params.shavePx.
C6_ShaveMonotone ==
    pc = "feather" =>
        C6_Holds([s \in 0 .. MaxShave2 |-> Shave(objectMask, w, h, s)])

C6_Witness ==
    /\ pc = "feather"
    /\ w = 5
    /\ params["shavePx2"] = 2
    /\ CountOnes(objectMask) = 9
    /\ CountOnes(shavedObj) = 1
    /\ shavedObj[12] = 1

\* Pixel i has a 4-neighbour that is outside the mask m.
HasOutsideNeighbour(m, i, wd) ==
    \E j \in DOMAIN m : CityBlock(i, j, wd) = 1 /\ m[j] = 0

\* C7, as claimed: with featherWidth F > 0, feather is 1 wherever the distance
\* to the nearest pixel outside the shaved object is >= F, and 0 at every
\* pixel of the shaved object that has a 4-neighbour outside it.
C7_BoundaryIsZero ==
    (pc = "assembly" /\ params["featherWidth2"] > 0) =>
        \A i \in DOMAIN shavedObj :
            /\ 2 * NearestCityBlock(shavedObj, i, w, 0) >= params["featherWidth2"]
                => objectFeather[i] = 4
            /\ (shavedObj[i] = 1 /\ HasOutsideNeighbour(shavedObj, i, w))
                => objectFeather[i] = 0

\* C7, amended: with featherWidth F > 0, feather is 1 wherever the distance
\* to the nearest pixel outside the shaved object is >= F; a pixel of the
\* shaved object with a 4-neighbour outside it is at distance 1 and has
\* feather min(1, 1/F); feather is 0 exactly at the pixels outside the shaved
\* object.  (Feather in quarters; stated where the feather has just run.)
C7_BoundaryIsOneStep ==
    (pc = "assembly" /\ params["featherWidth2"] > 0) =>
        \A i \in DOMAIN shavedObj :
            /\ 2 * NearestCityBlock(shavedObj, i, w, 0) >= params["featherWidth2"]
                => objectFeather[i] = 4
            /\ (shavedObj[i] = 1 /\ HasOutsideNeighbour(shavedObj, i, w))
                => /\ params["featherWidth2"] * objectFeather[i] = 8
                      \/ (objectFeather[i] = 4 /\ params["featherWidth2"] <= 2)
                   /\ objectFeather[i] > 0
            /\ objectFeather[i] = 0 <=> shavedObj[i] = 0

C7_Witness ==
    /\ pc = "assembly"
    /\ params["featherWidth2"] = 4
    /\ w = 5
    /\ CountOnes(shavedObj) = 9
    /\ objectFeather[12] = 4
    /\ objectFeather[7] = 2
    /\ objectFeather[2] = 0

\* The compositor's alpha before the boost, in quarters.
C8_Base4(i) ==
    IF shavedObj[i] = 1 THEN alphaRaw[i] * objectFeather[i]
    ELSE IF shadowMask[i] = 1 THEN 4 * alphaRaw[i]
    ELSE 0

\* min(255, baseAlpha * alphaBoost) for baseAlpha > 0, 0 otherwise, in eighths.
C8_Saturated8(i) ==
    IF C8_Base4(i) > 0
    THEN Min2(255 * 8, C8_Base4(i) * params["alphaBoost2"])
    ELSE 0

C9_Dark20k(p) ==
    LET v == (2989 * p[1] + 5870 * p[2] + 1140 * p[3]) * params["globalDarkFactor2"]
    IN  IF v < 0 THEN 0 ELSE IF v > 255 * 20000 THEN 255 * 20000 ELSE v

\* Values of <<edgeDesat, edgeDark>> (in halves) a second run may use.
EdgeAlternatives == {0, 1, 2} \X {0, 1, 2}

\* The output raster of a run that differs in edgeDesat and edgeDark only.
C9_OutputWith(e) ==
    OutputData(data, EdgeDesaturation(data, alpha, e[1], e[2]), alpha,
               params["globalDarkFactor2"])

\* C9, as claimed: every output pixel has R = G = B =
\* clamp(0, 255, luma * globalDarkFactor) and the compositor's alpha, and a
\* run that differs only in edgeDesat, edgeDark gives the same raster.
C9_GrayIsExactClamp ==
    promise = "resolved" =>
        /\ \A i \in DOMAIN outD :
            /\ outD[i][1] = outD[i][2] /\ outD[i][2] = outD[i][3]
            /\ 20000 * outD[i][1] = C9_Dark20k(data[i])
            /\ outD[i][4] = alpha[i]
        /\ \A e \in EdgeAlternatives : C9_OutputWith(e) = outD

\* C9, amended: every output pixel has R = G = B = the byte nearest to
\* clamp(0, 255, luma * globalDarkFactor) (the store into ImageData rounds)
\* and the compositor's alpha, and a run that differs only in edgeDesat,
\* edgeDark gives the same raster.
C9_GrayIsRoundedClamp ==
    promise = "resolved" =>
        /\ \A i \in DOMAIN outD :
            /\ outD[i][1] = outD[i][2] /\ outD[i][2] = outD[i][3]
            /\ outD[i][1] \in 0 .. 255
            /\ Abs(20000 * outD[i][1] - C9_Dark20k(data[i])) <= 10000
            /\ outD[i][4] = alpha[i]
        /\ \A e \in EdgeAlternatives : C9_OutputWith(e) = outD

C9_Witness ==
    /\ promise = "resolved"
    /\ params["globalDarkFactor2"] = 2
    /\ \E i \in DOMAIN outD :
        /\ alpha[i] > 0 /\ alpha[i] < 255
        /\ data[i] = Red
        /\ finalRGB[i] = <<0, 0, 0>>
        /\ outD[i] = <<76, 76, 76, alpha[i]>>

\* C10, as claimed: once img.onload has run on an image with W*H = 0, the
\* promise is rejected, with an InvalidInput error.
C10_RejectsInvalidInput ==
    (w * h = 0 /\ pc # "loading" /\ rejectReason \notin {DecodeError, NoContext}) =>
        promise = "rejected" /\ rejectReason = "InvalidInput"

\* The distances of the raster's pixels to the key, as stage 2 computes them.
C11_Dists == [i \in DOMAIN data |-> DistUnits(data[i], key4)]

\* C11: whenever clearDistNorm = opaqueDistNorm (fadeStrength = 1 or
\* colorTolerance = 0), every pixel with distNorm > opaqueDistNorm has raw
\* alpha 255 and every other pixel raw alpha 0, and no pixel takes the
\* linear-fade branch, whose divisor is 0.
C11_ZeroWidthFade ==
    (HasRead("fadeStrength")
        /\ (params["fadeStrength"] = 1 \/ params["colorTolerance"] = 0)) =>
        LET kmax == MaxDist(C11_Dists)
            ct == params["colorTolerance"]
        IN  \A i \in DOMAIN alphaRaw :
                /\ ~TakesFadeBranch(C11_Dists[i], kmax, ct, params["fadeStrength"])
                /\ 255 * C11_Dists[i] > ct * kmax => alphaRaw[i] = 255
                /\ 255 * C11_Dists[i] <= ct * kmax => alphaRaw[i] = 0

C11_Witness ==
    /\ pc = "masks"
    /\ params["fadeStrength"] = 1 /\ params["colorTolerance"] = 15
    /\ w = 3 /\ h = 3
    /\ data[4] = Red /\ key4 = <<0, 1020, 0>>
    /\ alphaRaw[4] = 255
    /\ \A i \in DOMAIN alphaRaw \ {4} : alphaRaw[i] = 0

\* The final alpha of a run on the same raster and parameters except for
\* shavePx = s2 / 2 and featherWidth = f2 / 2.
C12_AlphaWith(s2, f2) ==
    LET sh == Shave(objectMask, w, h, s2)
    IN  FinalAssembly(alphaRaw, sh, shadowMask, Feather(sh, w, h, f2),
                      params["alphaBoost2"])

\* The final alphas of the runs that differ in shavePx and featherWidth, put
\* beside the alpha of this run: no shadow pixel differs.
C12_SameOnShadow(alphas) ==
    \A sf \in DOMAIN alphas : \A i \in DOMAIN alpha :
        shadowMask[i] = 1 => alphas[sf][i] = alpha[i]

\* C12: for every pixel of shadowMask (0 < rawAlpha < objectThreshold) the
\* alpha before the boost is rawAlpha, whatever shavePx and featherWidth are,
\* and a run that differs only in shavePx, featherWidth gives every shadow
\* pixel the same final alpha.  Stated where the compositor has just run.
C12_ShadowPassThrough ==
    pc = "edge" =>
        /\ \A i \in DOMAIN alpha :
            shadowMask[i] = 1 <=>
                (0 < alphaRaw[i] /\ alphaRaw[i] < params["objectThreshold"])
        /\ \A i \in DOMAIN alpha :
            shadowMask[i] = 1 =>
                /\ BaseAlpha4(alphaRaw, shavedObj, shadowMask, objectFeather, i)
                    = 4 * alphaRaw[i]
                /\ alpha[i] = Min2(255 * 2, alphaRaw[i] * Boost2(params["alphaBoost2"])) \div 2
        /\ C12_SameOnShadow([sf \in ShavePx2s \X FeatherWidth2s |->
                                C12_AlphaWith(sf[1], sf[2])])

C12_Witness ==
    /\ pc = "edge"
    /\ params["shavePx2"] = 2 /\ params["featherWidth2"] = 4
    /\ params["alphaBoost2"] = 2
    /\ \E i \in DOMAIN alpha : shadowMask[i] = 1 /\ alphaRaw[i] = 29 /\ alpha[i] = 29
    /\ \E j \in DOMAIN alpha : objectMask[j] = 1 /\ alphaRaw[j] = 83 /\ alpha[j] = 0

\* C17: a pixel of objectMask that the shave removed (shavePx > 0 and
\* shavedObj = 0) is not in shadowMask, no pixel being in both masks, and its
\* final alpha is 0, whatever alphaBoost and featherWidth are.
C17_ShavedOffIsBackground ==
    HasRead("alphaBoost2") =>
        /\ \A i \in DOMAIN alpha : ~(objectMask[i] = 1 /\ shadowMask[i] = 1)
        /\ \A i \in DOMAIN alpha :
            (params["shavePx2"] > 0 /\ objectMask[i] = 1 /\ shavedObj[i] = 0) =>
                shadowMask[i] = 0 /\ alpha[i] = 0

C17_Witness ==
    /\ pc = "edge"
    /\ w = 5
    /\ params["shavePx2"] = 2 /\ params["featherWidth2"] = 2
    /\ params["alphaBoost2"] = 5
    /\ CountOnes(objectMask) = 9 /\ CountOnes(shavedObj) = 1
    /\ alphaRaw[6] = 255 /\ alpha[6] = 0
    /\ alpha[12] = 255

\* C15: with invert = true the two sweeps leave, at every pixel, the
\* city-block distance to the nearest mask-0 pixel (0 on the mask-0 pixels),
\* measured inside the grid: a pixel at the end of a row is not next to the
\* first pixel of the following row.  When the mask has no 0 pixel every
\* entry is INF.
C15_ExactCityBlock ==
    (dtpc = "done" /\ invert) =>
        /\ \A i \in DOMAIN mask : dist[i] = NearestCityBlock(mask, i, width, 0)
        /\ \A i \in DOMAIN mask : mask[i] = 0 => dist[i] = 0
        /\ (\A j \in DOMAIN mask : mask[j] # 0) =>
                \A i \in DOMAIN mask : dist[i] = INF

\* A 3 x 3 mask whose only 0 is the first pixel of the second row: the last
\* pixel of the first row is 3 steps away, not 1.
C15_Witness ==
    /\ dtpc = "done" /\ invert
    /\ width = 3 /\ height = 3
    /\ \A i \in DOMAIN mask : mask[i] = (IF i = 3 THEN 0 ELSE 1)
    /\ dist[2] = 3 /\ dist[3] = 0 /\ dist[8] = 3

\* colorTolerance and fadeStrength have been read with their DEFAULT_PARAMS
\* values (src/types.ts, lines 40 and 45).
C16_DefaultFade ==
    /\ HasRead("colorTolerance")
    /\ params["colorTolerance"] = 15 /\ params["fadeStrength"] = 50

\* Under the default fade no raw alpha is above 83; with the default
\* objectThreshold, 210, objectMask is empty and so is the shaved object,
\* and every pixel with a final alpha above 0 is a shadow pixel.
C16_DefaultsGiveShadowOnly ==
    C16_DefaultFade =>
        /\ \A i \in DOMAIN alphaRaw : alphaRaw[i] <= 83
        /\ (HasRead("objectThreshold") /\ params["objectThreshold"] = 210) =>
            /\ CountOnes(objectMask) = 0
            /\ HasRead("shavePx2") => CountOnes(shavedObj) = 0
            /\ HasRead("alphaBoost2") =>
                \A i \in DOMAIN alpha : alpha[i] > 0 => shadowMask[i] = 1

\* C16, as claimed: the normalized distance of every pixel is strictly below
\* 1, and under the default parameters no raw alpha is above 83, objectMask
\* is empty and every final alpha above 0 comes from the shadow branch.
C16_NormBelowOne ==
    /\ pc = "masks" =>
        \A i \in DOMAIN data :
            ~DistNormAtLeastOne(C11_Dists[i], MaxDist(C11_Dists))
    /\ C16_DefaultsGiveShadowOnly

\* C16, amended: the normalized distance of a pixel is at least 1 only for a
\* pixel at the largest distance whose stored distance was rounded up, by at
\* most half a unit in the last place of a float (mant^2 - n <= mant); it is
\* below clearDistNorm = 750/255 for every pixel under the default fade, and
\* then no raw alpha is above 83, with the default objectThreshold objectMask
\* is empty and every final alpha above 0 comes from the shadow branch.
C16_NormBelowClear ==
    /\ pc = "masks" =>
        LET kmax == MaxDist(C11_Dists)
        IN  \A i \in DOMAIN data :
                /\ DistNormAtLeastOne(C11_Dists[i], kmax) =>
                    /\ C11_Dists[i] = kmax
                    /\ Float32Dist(kmax).excess > 0
                    /\ Float32Dist(kmax).excess <= Float32Dist(kmax).mant
                /\ C16_DefaultFade => 255 * C11_Dists[i] <= 750 * kmax
    /\ C16_DefaultsGiveShadowOnly

C16_Witness ==
    /\ promise = "resolved"
    /\ C16_DefaultFade /\ params["objectThreshold"] = 210
    /\ w = 3
    /\ key4 = <<400, 620, 0>> /\ data[4] = Red
    /\ DistNormAtLeastOne(C11_Dists[4], MaxDist(C11_Dists))
    /\ alphaRaw[4] = 83 /\ shadowMask[4] = 1 /\ objectMask[4] = 0
    /\ alpha[4] > 0

(***************************************************************************)
(* C13.  The upload queue and its cap.                                     *)
(***************************************************************************)
\* A step that lengthens the queue appends the accepted files of one
\* selection, all of them, and that selection fits under the cap.
C13_GrowthIsOneFittingSelection ==
    Len(files') > Len(files) =>
        \E selectedFiles \in Selections :
            /\ files' = files \o ValidFiles(selectedFiles)
            /\ Len(ValidFiles(selectedFiles)) + Len(files) <= MAX_FILES

\* A change event whose accepted files would take the queue past the cap
\* leaves the queue as it was.
C13_OverCapAddsNothing ==
    \A selectedFiles \in Selections :
        Len(ValidFiles(selectedFiles)) + Len(files) > MAX_FILES =>
            QueueAfterChange(files, selectedFiles) = files

\* C13: whatever handleFileChange, removeFile and processImages events
\* have happened, the queue holds at most MAX_FILES files, every queued
\* file has an accepted type, and a selection whose accepted files would
\* push the queue past the cap adds nothing.
C13_BatchCap ==
    /\ [](/\ Len(files) <= MAX_FILES
          /\ \A j \in DOMAIN files : files[j].type \in AcceptedTypes
          /\ C13_OverCapAddsNothing)
    /\ [][C13_GrowthIsOneFittingSelection]_vars

\* The queue is full while the upload area shows, and a selection with one
\* more accepted file is refused.
C13_Witness ==
    /\ Len(files) = MAX_FILES
    /\ UploadVisible
    /\ QueueAfterChange(files, <<File("image/gif"), File("image/png")>>) = files

(***************************************************************************)
(* C14.  processImages: one attempt per queued file, failures set aside.   *)
(***************************************************************************)
\* The places of a sequence of result entries.
C14_Places(entries) == [j \in DOMAIN entries |-> entries[j].fileIndex]

C14_Increasing(seq) ==
    \A j \in DOMAIN seq : \A k \in DOMAIN seq : j < k => seq[j] < seq[k]

C14_Range(seq) == {seq[j] : j \in DOMAIN seq}

\* The files at places 0..n-1 have each been attempted once, in order:
\* every place is either among the entries or among the caught failures,
\* never both, and both run in queue order.
C14_AttemptedOnce(entries, failed, n) ==
    /\ C14_Range(C14_Places(entries)) \cup C14_Range(failed) = 0 .. (n - 1)
    /\ C14_Range(C14_Places(entries)) \cap C14_Range(failed) = {}
    /\ C14_Increasing(C14_Places(entries))
    /\ C14_Increasing(failed)
    /\ Len(entries) + Len(failed) = n

\* While the batch runs, the files before i are the attempted ones.
C14_DuringBatch ==
    appPc \in {"loop", "await", "hung"} =>
        /\ status.isProcessing
        /\ loopI <= Len(files)
        /\ status.totalImages = Len(files)
        /\ C14_AttemptedOnce(newResults, caught, loopI)
        /\ status.completedImages = Len(newResults)

\* Once the batch has ended, results holds the files that were not caught.
C14_AfterBatch ==
    status.currentStep = "Done!" =>
        /\ ~status.isProcessing
        /\ C14_AttemptedOnce(results, caught, status.totalImages)
        /\ status.completedImages = Len(results)

\* A rejection adds no entry and moves on to the next file; the step that
\* ends the batch empties the queue.
C14_Step ==
    /\ ProcessImageRejects =>
        /\ newResults' = newResults
        /\ status' = status
        /\ loopI' = loopI + 1
        /\ appPc' = "loop"
    /\ ProcessImagesFinish =>
        /\ loopI = Len(files)
        /\ results' = newResults
        /\ files' = << >>

\* C14: in processImages every queued file is attempted exactly once in
\* queue order; a rejected processImage gives no result entry for its file
\* and does not stop the later files; when the batch ends, results holds
\* exactly the successfully processed files in queue order,
\* completedImages is their number, isProcessing is false and the queue is
\* empty.
C14_FailureIsolation ==
    /\ [](C14_DuringBatch /\ C14_AfterBatch)
    /\ [][C14_Step]_vars

\* A batch of three has ended whose second file was rejected.
C14_Witness ==
    /\ status.currentStep = "Done!"
    /\ status.totalImages = 3
    /\ caught = <<1>>
    /\ results = <<ResultOf(0), ResultOf(2)>>
    /\ status.completedImages = 2
    /\ ~status.isProcessing
    /\ files = << >>

(***************************************************************************)
(* C18.  The lightbox index stays on an existing slide.                    *)
(***************************************************************************)
\* The index is null or one of the 2 * results.length slides, and
\* getCurrentSlide finds the result it belongs to: slide 2k is the
\* Original of result k, slide 2k + 1 its Result.
C18_IndexOnSlide ==
    \/ lightboxIndex = Null /\ GetCurrentSlide(lightboxIndex, results) = Null
    \/ /\ lightboxIndex # Null
       /\ lightboxIndex[1] \in 0 .. (2 * Len(results) - 1)
       /\ \E k \in 0 .. (Len(results) - 1), half \in {0, 1} :
            /\ lightboxIndex[1] = 2 * k + half
            /\ GetCurrentSlide(lightboxIndex, results) =
                 [data |-> results[k + 1],
                  type |-> IF half = 0 THEN "Original" ELSE "Result",
                  indexStr |-> <<k + 1, Len(results)>>]

\* nextImage goes one slide on and from the last slide to the first;
\* prevImage goes one slide back and from the first slide to the last.
C18_Wraps ==
    LET last == 2 * Len(results) - 1
    IN  /\ NextImage =>
            lightboxIndex' =
                IF lightboxIndex[1] = last THEN <<0>>
                ELSE <<lightboxIndex[1] + 1>>
        /\ PrevImage =>
            lightboxIndex' =
                IF lightboxIndex[1] = 0 THEN <<last>>
                ELSE <<lightboxIndex[1] - 1>>

\* C18: whatever lightbox open, nextImage, prevImage and closeLightbox
\* events have happened, lightboxIndex is null or an integer in
\* [0, 2 * results.length), next and prev wrap around at the ends, and
\* getCurrentSlide resolves to an existing result, even indices showing
\* the Original and odd indices the Result.
C18_LightboxInRange ==
    /\ []C18_IndexOnSlide
    /\ [][C18_Wraps]_vars

\* The lightbox shows the last slide of two results, the Result of the
\* second one, from where nextImage wraps to slide 0.
C18_Witness ==
    /\ Len(results) = 2
    /\ lightboxIndex = <<3>>
    /\ GetCurrentSlide(lightboxIndex, results).type = "Result"
    /\ GetCurrentSlide(lightboxIndex, results).data = results[2]
    /\ NextIndex(lightboxIndex, Len(results)) = <<0>>

====
